---- MODULE Spec2Model ----
(***************************************************************************)
(* Model of the createrington bot core:                                    *)
(*   - the join ledger (guild_member_joins table, GuildMemberJoinQueries)  *)
(*   - the event loader (loadEventHandlers) and the upstream client's      *)
(*     listener dispatch.                                                  *)
(***************************************************************************)
EXTENDS Integers, Sequences, FiniteSets, TLC

(***************************************************************************)
(* Bounds                                                                  *)
(***************************************************************************)
\* number of recordJoin invocations in one behaviour (all may be in flight together)
NumCalls == 2
\* number of getJoinNumber invocations in one behaviour (all may be pending together)
NumLookups == 2

\* number of event files found under the events directory
MaxFiles == 3
\* number of notifications the upstream client emits in one behaviour
MaxEmits == 2
\* number of files, directories and links under the events directory
MaxEntries == 4
\* number of members joining or leaving the guild in one behaviour
MaxGuildEvents == 4

Calls == 1..NumCalls
Lookups == 1..NumLookups
GuildEvents == 1..MaxGuildEvents
FileIdx == 1..MaxFiles
UserIds == {"u1", "u2"}
Usernames == {"Alice", "Bob"}

VARIABLES
    \* ---- persistent store (PostgreSQL) ----
    guild_member_joins,   \* the table: sequence of rows in insertion order
    join_number_seq,      \* last value handed out by the SERIAL sequence
    \* ---- recordJoin invocations ----
    pc,                   \* pc[c]: "idle" | "insert" (query sent) | "started" (statement begun) |
                          \* "arbitrate" (number drawn) | "inserted" (INSERT applied, answer on
                          \* its way) | "find" (fallback sent) | "found" (the store has read,
                          \* answer on its way) | "returned" | "thrown"
    args,                 \* args[c]: [userId, username] of the invocation
    result,               \* result[c]: <<>> or <<joinNumber>> returned to the caller
    reserved,             \* reserved[c]: <<>> or <<n>>, the nextval() drawn by c's INSERT
    startedAt,            \* startedAt[c]: CURRENT_TIMESTAMP of c's INSERT, 0 before it started
    answer,               \* answer[c]: the rows of the store's answer that has not reached
                          \* recordJoin yet (RETURNING rows, or the rows the fallback read)
    errorOf,              \* errorOf[c]: "" or the error logged and thrown to the caller
    overlapped,           \* overlapped[c]: invocations that were in flight together with c
    lastGet,              \* lastGet[l]: the value lookup l returned: <<>> (null) or <<n>>
    getCall,              \* getCall[l], a getJoinNumber invocation: [pc, userId, member], pc
                          \* "idle" | "called" (this.find sent, the store has not read) |
                          \* "find" (the store has read, the promise is pending) |
                          \* "returned" | "rejected"
    \* ---- event loader (loadEventHandlers) ----
    isDev,                \* config.envMode.isDev
    loaderPc,             \* "start" | "loop" | "done" | "thrown" (the promise rejected)
    eventFiles,           \* the modules behind the discovered files, in discovery order
    fileIdx,              \* position of the for-loop in eventFiles
    loadedCount,          \* the loop's counter
    loadedResult,         \* <<>> or <<n>>: the value loadEventHandlers resolved to
    registered,           \* indexes of the files whose event was registered
    skipLog,              \* skipLog[k]: log lines of kind k ("shape", "prodOnly", "failed")
    \* ---- upstream client (discord.js Client) and handler invocations ----
    listeners,            \* bound listeners in binding order: [file, eventName, once]
    emitted,              \* number of notifications emitted
    delivered,            \* delivered[i]: notifications of file i's event emitted since it was bound
    invoked,              \* invoked[i]: calls of file i's execute
    running,              \* running[i]: invocations of file i's execute still awaited
    errorLog,             \* errorLog[i]: errors the wrapper of file i caught and logged
    unhandled,            \* an error escaped a wrapper to the upstream client
    \* ---- discovery (getAllEventFiles) ----
    dirents,              \* the entries under the events directory, in directory order:
                          \* [path, kind], kind "file" | "dir" | "other"
    discovered,           \* <<>> before the scan, then <<the paths getAllEventFiles returned>>
    \* ---- welcome handler (registerWelcomeHandler) ----
    welcomeConfig,        \* config.discord.events.onGuildMemberAdd.welcome, as read
    welcomePc,            \* "start" | "disabled" | "noChannel" | "bound"
    guildMembers,         \* the members currently in the guild, the bot included
    guildEvents,          \* number of joins and leaves so far
    wPc,                  \* wPc[i], the listener invocation of guild event i: "idle" (none) |
                          \* "fetch" | "card" | "send" | "embed" | "done"
    wMember,              \* wMember[i]: the member invocation i is welcoming
    wCount,               \* wCount[i]: memberCount as read by invocation i
    wChannel,             \* wChannel[i]: what the channel fetch of invocation i gave: "none"
                          \* before it, "throws" | "null" | "notText" | "text"
    sent,                 \* messages sent to the welcome channel, in order:
                          \* [kind, userId, number, event], event the guild event sent for
    welcomeErrors,        \* errors the listener invocations caught and logged
    welcomeEscaped        \* an error left a listener invocation

ledgerVars == <<guild_member_joins, join_number_seq, pc, args, result, reserved, startedAt, answer,
                errorOf, overlapped, lastGet, getCall>>

loaderVars == <<loaderPc, eventFiles, fileIdx, loadedCount, loadedResult, registered, skipLog>>

clientVars == <<listeners, emitted, delivered, invoked, running, errorLog, unhandled>>

fsVars == <<dirents, discovered>>

welcomeVars == <<welcomeConfig, welcomePc, guildMembers, guildEvents, wPc, wMember, wCount, wChannel,
                 sent, welcomeErrors, welcomeEscaped>>

otherVars == <<fsVars, welcomeVars>>

vars == <<guild_member_joins, join_number_seq, pc, args, result, reserved, startedAt, answer,
          errorOf, overlapped, lastGet, getCall,
          isDev, loaderPc, eventFiles, fileIdx, loadedCount, loadedResult, registered,
          skipLog, listeners, emitted, delivered, invoked, running, errorLog, unhandled,
          dirents, discovered,
          welcomeConfig, welcomePc, guildMembers, guildEvents, wPc, wMember, wCount, wChannel,
          sent, welcomeErrors, welcomeEscaped>>

(***************************************************************************)
(* The table and its constraints (001_guild_member_joins.sql)              *)
(***************************************************************************)
Range(s) == {s[i] : i \in 1..Len(s)}

\* a sequence that never advances
Stuck_NextVal(seq) == 1

\* a sequence that counts downwards
Countdown_NextVal(seq) == seq - 1

\* join_number SERIAL: nextval() of the owned sequence
NextVal(seq) == seq + 1

\* a table without the UNIQUE (user_id) constraint
NoConstraint_UserIdConflict(table, userId) == FALSE

\* user_id ... UNIQUE: does a row with this user_id exist?

UserIdConflict(table, userId) == \E r \in Range(table) : r.userId = userId

\* BaseQueries.find({ userId }): point lookup, the matching rows (zero or one)
Find(table, userId) == SelectSeq(table, LAMBDA r : r.userId = userId)

\* The INSERT runs in two steps. First the proposed row is formed: its
\* join_number is DEFAULT nextval(), drawn before the ON CONFLICT arbitration
\* and never given back. Then the arbitration on user_id either stores the
\* proposed row and makes it visible, or does nothing.

\* an upsert: ON CONFLICT (user_id) DO UPDATE giving the row the fresh join_number
Upsert_InsertOnConflictDoNothing(table, joinNumber, userId, username, ts) ==
    LET row == [joinNumber |-> joinNumber, userId |-> userId,
                username |-> username, joinedAt |-> ts]
    IN [table |-> IF UserIdConflict(table, userId)
                  THEN [i \in 1..Len(table) |->
                           IF table[i].userId = userId THEN row ELSE table[i]]
                  ELSE Append(table, row),
        rows |-> <<joinNumber>>]

\* ON CONFLICT (user_id) DO UPDATE SET username = EXCLUDED.username
Rename_InsertOnConflictDoNothing(table, joinNumber, userId, username, ts) ==
    IF UserIdConflict(table, userId)
    THEN [table |-> [i \in 1..Len(table) |->
                        IF table[i].userId = userId
                        THEN [table[i] EXCEPT !.username = username]
                        ELSE table[i]],
          rows |-> <<>>]
    ELSE [table |-> Append(table, [joinNumber |-> joinNumber, userId |-> userId,
                                   username |-> username, joinedAt |-> ts]),
          rows |-> <<joinNumber>>]

\* INSERT ... ON CONFLICT (user_id) DO NOTHING RETURNING join_number, for the
\* proposed row: yields [table, rows], the new table and the RETURNING rows
InsertOnConflictDoNothing(table, joinNumber, userId, username, ts) ==
    IF UserIdConflict(table, userId)
    THEN [table |-> table, rows |-> <<>>]
    ELSE [table |-> Append(table, [joinNumber |-> joinNumber,
                                   userId |-> userId,
                                   username |-> username,
                                   joinedAt |-> ts]),
          rows |-> <<joinNumber>>]

InFlight(c) == pc[c] \in {"insert", "started", "arbitrate", "inserted", "find", "found"}

\* the errors recordJoin logs and throws
StorageError == "storage error"
NoResultError == "Failed to record join - no result returned"

\* CURRENT_TIMESTAMP as a logical clock that ticks with every statement begun
Now == Cardinality({c \in Calls : startedAt[c] # 0}) + 1

(***************************************************************************)
(* GuildMemberJoinQueries.recordJoin                                       *)
(***************************************************************************)
\* the caller invokes recordJoin(userId, username): this.db.query(INSERT ...)
\* is sent and awaited
RecordJoinCall(c, userId, username) ==
    /\ pc[c] = "idle"
    /\ \A d \in Calls : d < c => pc[d] # "idle"
    /\ pc' = [pc EXCEPT ![c] = "insert"]
    /\ args' = [args EXCEPT ![c] = [userId |-> userId, username |-> username]]
    /\ result' = [result EXCEPT ![c] = <<>>]
    /\ overlapped' = [d \in Calls |->
                        IF d = c THEN {e \in Calls \ {c} : InFlight(e)}
                        ELSE IF InFlight(d) THEN overlapped[d] \cup {c}
                        ELSE overlapped[d]]
    /\ UNCHANGED <<guild_member_joins, join_number_seq, reserved, startedAt, answer, errorOf, lastGet, getCall>>
    /\ UNCHANGED <<isDev, loaderVars, clientVars, otherVars>>

\* a backend of the store begins the statement: CURRENT_TIMESTAMP is fixed
RecordJoinStatementStart(c) ==
    /\ pc[c] = "insert"
    /\ pc' = [pc EXCEPT ![c] = "started"]
    /\ startedAt' = [startedAt EXCEPT ![c] = Now]
    /\ UNCHANGED <<guild_member_joins, join_number_seq, args, result, reserved, answer, errorOf,
                   overlapped, lastGet, getCall>>
    /\ UNCHANGED <<isDev, loaderVars, clientVars, otherVars>>

\* the statement forms the proposed row: the column default draws its join_number
RecordJoinNextVal(c) ==
    /\ pc[c] = "started"
    /\ pc' = [pc EXCEPT ![c] = "arbitrate"]
    /\ join_number_seq' = NextVal(join_number_seq)
    /\ reserved' = [reserved EXCEPT ![c] = <<NextVal(join_number_seq)>>]
    /\ UNCHANGED <<guild_member_joins, args, result, startedAt, answer, errorOf, overlapped, lastGet, getCall>>
    /\ UNCHANGED <<isDev, loaderVars, clientVars, otherVars>>

\* the store arbitrates on user_id and applies the INSERT: the row is stored
\* (or not) and the RETURNING rows are on their way to recordJoin
RecordJoinArbitrate(c) ==
    /\ pc[c] = "arbitrate"
    /\ LET res == InsertOnConflictDoNothing(guild_member_joins, reserved[c][1],
                                            args[c].userId, args[c].username, startedAt[c])
       IN /\ guild_member_joins' = res.table
          /\ answer' = [answer EXCEPT ![c] = res.rows]
    /\ pc' = [pc EXCEPT ![c] = "inserted"]
    /\ UNCHANGED <<join_number_seq, args, result, reserved, startedAt, errorOf, overlapped, lastGet, getCall>>
    /\ UNCHANGED <<isDev, loaderVars, clientVars, otherVars>>

\* a suppressed insert that answers with the number it drew
ReturnDrawn_RecordJoinInsert(c) ==
    /\ pc[c] = "inserted"
    /\ pc' = [pc EXCEPT ![c] = "returned"]
    /\ result' = [result EXCEPT ![c] = reserved[c]]
    /\ answer' = [answer EXCEPT ![c] = <<>>]
    /\ UNCHANGED <<guild_member_joins, join_number_seq, args, reserved, startedAt, errorOf, overlapped, lastGet, getCall>>
    /\ UNCHANGED <<isDev, loaderVars, clientVars, otherVars>>

\* await this.db.query resolves: the branch on result.rows.length, which
\* returns result.rows[0].join_number or sends the fallback this.find
RecordJoinInsert(c) ==
    /\ pc[c] = "inserted"
    /\ IF Len(answer[c]) = 0
       THEN /\ pc' = [pc EXCEPT ![c] = "find"]
            /\ UNCHANGED result
       ELSE /\ pc' = [pc EXCEPT ![c] = "returned"]
            /\ result' = [result EXCEPT ![c] = <<answer[c][1]>>]
    /\ answer' = [answer EXCEPT ![c] = <<>>]
    /\ UNCHANGED <<guild_member_joins, join_number_seq, args, reserved, startedAt, errorOf, overlapped, lastGet, getCall>>
    /\ UNCHANGED <<isDev, loaderVars, clientVars, otherVars>>

\* a catch that logs and answers with the number it drew instead of throwing
Swallow_Rethrow(c, error) ==
    /\ pc' = [pc EXCEPT ![c] = "returned"]
    /\ errorOf' = [errorOf EXCEPT ![c] = error]
    /\ result' = [result EXCEPT ![c] = <<join_number_seq>>]
    /\ answer' = [answer EXCEPT ![c] = <<>>]

\* catch (error) { logger.error(...); throw error }
Rethrow(c, error) ==
    /\ pc' = [pc EXCEPT ![c] = "thrown"]
    /\ errorOf' = [errorOf EXCEPT ![c] = error]
    /\ answer' = [answer EXCEPT ![c] = <<>>]
    /\ UNCHANGED result

\* this.db.query rejects: the statement failed at some point, or it was
\* applied and its answer was lost
RecordJoinInsertError(c) ==
    /\ pc[c] \in {"insert", "started", "arbitrate", "inserted"}
    /\ Rethrow(c, StorageError)
    /\ UNCHANGED <<guild_member_joins, join_number_seq, args, reserved, startedAt, overlapped, lastGet, getCall>>
    /\ UNCHANGED <<isDev, loaderVars, clientVars, otherVars>>

\* the store evaluates the fallback this.find({ userId }); the rows it read
\* are on their way to recordJoin
RecordJoinFindRead(c) ==
    /\ pc[c] = "find"
    /\ pc' = [pc EXCEPT ![c] = "found"]
    /\ answer' = [answer EXCEPT ![c] = Find(guild_member_joins, args[c].userId)]
    /\ UNCHANGED <<guild_member_joins, join_number_seq, args, result, reserved, startedAt, errorOf,
                   overlapped, lastGet, getCall>>
    /\ UNCHANGED <<isDev, loaderVars, clientVars, otherVars>>

\* a fallback that starts over when the lookup found nothing
RetryOnMissing_RecordJoinFind(c) ==
    /\ pc[c] = "found"
    /\ IF Len(answer[c]) = 0
       THEN /\ pc' = [pc EXCEPT ![c] = "insert"]
            /\ UNCHANGED <<result, errorOf>>
       ELSE /\ pc' = [pc EXCEPT ![c] = "returned"]
            /\ result' = [result EXCEPT ![c] = <<answer[c][1].joinNumber>>]
            /\ UNCHANGED errorOf
    /\ answer' = [answer EXCEPT ![c] = <<>>]
    /\ UNCHANGED <<guild_member_joins, join_number_seq, args, reserved, startedAt, overlapped, lastGet, getCall>>
    /\ UNCHANGED <<isDev, loaderVars, clientVars, otherVars>>

\* await this.find resolves with existing: throw when there is none, else
\* return existing.joinNumber
RecordJoinFind(c) ==
    /\ pc[c] = "found"
    /\ IF Len(answer[c]) = 0
       THEN Rethrow(c, NoResultError)
       ELSE /\ pc' = [pc EXCEPT ![c] = "returned"]
            /\ result' = [result EXCEPT ![c] = <<answer[c][1].joinNumber>>]
            /\ answer' = [answer EXCEPT ![c] = <<>>]
            /\ UNCHANGED errorOf
    /\ UNCHANGED <<guild_member_joins, join_number_seq, args, reserved, startedAt, overlapped, lastGet, getCall>>
    /\ UNCHANGED <<isDev, loaderVars, clientVars, otherVars>>

\* this.find rejects, before or after the store has read
RecordJoinFindError(c) ==
    /\ pc[c] \in {"find", "found"}
    /\ Rethrow(c, StorageError)
    /\ UNCHANGED <<guild_member_joins, join_number_seq, args, reserved, startedAt, overlapped, lastGet, getCall>>
    /\ UNCHANGED <<isDev, loaderVars, clientVars, otherVars>>

\* The store loses the row of a participant behind the ledger's back (the
\* transaction that wrote it is rolled back, or the row is removed by hand).
RowLost(userId) ==
    /\ UserIdConflict(guild_member_joins, userId)
    /\ guild_member_joins' = SelectSeq(guild_member_joins, LAMBDA r : r.userId # userId)
    /\ UNCHANGED <<join_number_seq, pc, args, result, reserved, startedAt, answer, errorOf, overlapped, lastGet, getCall>>
    /\ UNCHANGED <<isDev, loaderVars, clientVars, otherVars>>

(***************************************************************************)
(* GuildMemberJoinQueries.getJoinNumber                                    *)
(***************************************************************************)
\* a getJoinNumber invocation that was not made yet
NoLookup == [pc |-> "idle", userId |-> "u1", member |-> <<>>]

\* member?.joinNumber ?? null
JoinNumberOrNull(member) == IF Len(member) = 0 THEN <<>> ELSE <<member[1].joinNumber>>

\* getJoinNumber(userId) is called: this.find({ userId }) is sent and awaited.
\* Lookups take no lock: any number of them is pending at a time.
GetJoinNumberCall(l, userId) ==
    /\ getCall[l].pc = "idle"
    /\ \A k \in Lookups : k < l => getCall[k].pc # "idle"
    /\ getCall' = [getCall EXCEPT ![l] = [pc |-> "called", userId |-> userId, member |-> <<>>]]
    /\ UNCHANGED <<guild_member_joins, join_number_seq, pc, args, result, reserved,
                   startedAt, answer, errorOf, overlapped, lastGet>>
    /\ UNCHANGED <<isDev, loaderVars, clientVars, otherVars>>

\* the store evaluates the find of lookup l, in whatever order the finds reach
\* it; the rows it read are on their way to getJoinNumber
GetJoinNumberFindRead(l) ==
    /\ getCall[l].pc = "called"
    /\ getCall' = [getCall EXCEPT ![l].pc = "find",
                                  ![l].member = Find(guild_member_joins, getCall[l].userId)]
    /\ UNCHANGED <<guild_member_joins, join_number_seq, pc, args, result, reserved,
                   startedAt, answer, errorOf, overlapped, lastGet>>
    /\ UNCHANGED <<isDev, loaderVars, clientVars, otherVars>>

\* a lookup that answers with what the table holds when the promise resolves,
\* and claims a number for a participant it does not find
Claiming_GetJoinNumberReturn(l) ==
    /\ getCall[l].pc = "find"
    /\ getCall' = [getCall EXCEPT ![l].pc = "returned"]
    /\ LET member == Find(guild_member_joins, getCall[l].userId)
       IN IF Len(member) = 0
          THEN /\ join_number_seq' = NextVal(join_number_seq)
               /\ guild_member_joins' =
                     Append(guild_member_joins,
                            [joinNumber |-> NextVal(join_number_seq),
                             userId |-> getCall[l].userId,
                             username |-> "Alice", joinedAt |-> Now])
               /\ lastGet' = [lastGet EXCEPT ![l] = <<NextVal(join_number_seq)>>]
          ELSE /\ lastGet' = [lastGet EXCEPT ![l] = <<member[1].joinNumber>>]
               /\ UNCHANGED <<guild_member_joins, join_number_seq>>
    /\ UNCHANGED <<pc, args, result, reserved, startedAt, answer, errorOf, overlapped>>
    /\ UNCHANGED <<isDev, loaderVars, clientVars, otherVars>>

\* the awaited find resolves: return member?.joinNumber ?? null
GetJoinNumberReturn(l) ==
    /\ getCall[l].pc = "find"
    /\ lastGet' = [lastGet EXCEPT ![l] = JoinNumberOrNull(getCall[l].member)]
    /\ getCall' = [getCall EXCEPT ![l].pc = "returned"]
    /\ UNCHANGED <<guild_member_joins, join_number_seq, pc, args, result, reserved,
                   startedAt, answer, errorOf, overlapped>>
    /\ UNCHANGED <<isDev, loaderVars, clientVars, otherVars>>

\* the awaited find rejects, before or after the store has read: getJoinNumber
\* has no catch, its promise rejects
GetJoinNumberFindError(l) ==
    /\ getCall[l].pc \in {"called", "find"}
    /\ getCall' = [getCall EXCEPT ![l].pc = "rejected", ![l].member = <<>>]
    /\ UNCHANGED <<guild_member_joins, join_number_seq, pc, args, result, reserved,
                   startedAt, answer, errorOf, overlapped, lastGet>>
    /\ UNCHANGED <<isDev, loaderVars, clientVars, otherVars>>

(***************************************************************************)
(* Event modules (event-loader.ts, EventModule and isEventModule)          *)
(***************************************************************************)
\* A candidate value is [typeof, eventName, execute, once, prodOnly, behaviour]:
\*   typeof     the JavaScript typeof of the value ("object" also requires non-null)
\*   eventName  <<>> when the property is absent, else <<typeof, value>>
\*   execute    <<>> when the property is absent, else <<typeof>>
\*   behaviour  what execute does when called: "ok" returns without waiting for
\*              anything (the wrapper resumes before any other notification or
\*              load step), "throws" throws synchronously, "resolves" returns a
\*              promise that resolves later, "rejects" one that rejects later
Candidate(ty, name, exec, once, prodOnly, behaviour) ==
    [typeof |-> ty, eventName |-> name, execute |-> exec,
     once |-> once, prodOnly |-> prodOnly, behaviour |-> behaviour]

NoExport == Candidate("undefined", <<>>, <<>>, FALSE, FALSE, "ok")

\* function isEventModule(module)
isEventModule(module) ==
    /\ module.typeof = "object"
    /\ module.eventName # <<>>
    /\ module.eventName[1] = "string"
    /\ module.execute # <<>>
    /\ module.execute[1] = "function"

\* What import() resolves to: [importThrows, hasDefault, default, named]
Artifact(throws, hasDefault, default, named) ==
    [importThrows |-> throws, hasDefault |-> hasDefault, default |-> default, named |-> named]

\* the auto-role module (enabled, with a role id configured): named exports,
\* recurring, not prodOnly; its async execute awaits RoleManager.assign and
\* catches what it throws, so its promise resolves later
AutoRole ==
    Artifact(FALSE, FALSE, NoExport,
             Candidate("object", <<"string", "guildMemberAdd">>, <<"function">>, FALSE, FALSE, "resolves"))
\* a recurring handler whose promise rejects
RejectingAdd ==
    Artifact(FALSE, FALSE, NoExport,
             Candidate("object", <<"string", "guildMemberAdd">>, <<"function">>, FALSE, FALSE, "rejects"))
\* a once handler in the default export that throws
ThrowingReadyOnce ==
    Artifact(FALSE, TRUE,
             Candidate("object", <<"string", "ready">>, <<"function">>, TRUE, FALSE, "throws"),
             Candidate("object", <<>>, <<>>, FALSE, FALSE, "ok"))
\* a production-only recurring handler
ProdOnlyReady ==
    Artifact(FALSE, FALSE, NoExport,
             Candidate("object", <<"string", "ready">>, <<"function">>, FALSE, TRUE, "ok"))
\* { eventName: "", execute: fn }
EmptyName ==
    Artifact(FALSE, FALSE, NoExport,
             Candidate("object", <<"string", "">>, <<"function">>, FALSE, FALSE, "ok"))
\* { eventName: "ready" } without execute
NoExecute ==
    Artifact(FALSE, FALSE, NoExport,
             Candidate("object", <<"string", "ready">>, <<>>, FALSE, FALSE, "ok"))
\* a module whose import throws
BrokenImport ==
    Artifact(TRUE, FALSE, NoExport, NoExport)
\* a default export that is no event module beside valid named exports (once)
NamedBesideDefault ==
    Artifact(FALSE, TRUE,
             Candidate("function", <<>>, <<>>, FALSE, FALSE, "ok"),
             Candidate("object", <<"string", "guildMemberAdd">>, <<"function">>, TRUE, FALSE, "ok"))

Artifacts == {AutoRole, RejectingAdd, ThrowingReadyOnce, ProdOnlyReady,
              EmptyName, NoExecute, BrokenImport, NamedBesideDefault}

EventNames == {"guildMemberAdd", "ready", ""}

FileLists == UNION {[1..n -> Artifacts] : n \in 0..MaxFiles}

\* the event chosen from the imported module: <<event>> or <<>> (undefined)
SelectEvent(eventModule) ==
    IF eventModule.hasDefault /\ isEventModule(eventModule.default)
    THEN <<eventModule.default>>
    ELSE IF isEventModule(eventModule.named)
         THEN <<eventModule.named>>
         ELSE <<>>

\* a gate that ignores the mode
AlwaysRegister_ProdOnlyGate(dev, event) == FALSE

\* if (isDev && event.prodOnly)
ProdOnlyGate(dev, event) == dev /\ event.prodOnly

\* both branches bind with client.on
AlwaysOn_BindOnce(event) == FALSE

\* if (event.once) client.once(...) else client.on(...)
BindOnce(event) == event.once

\* a counter that also counts on the way in
Miscount_CountRegistered(count) == count + 2

\* loadedCount++
CountRegistered(count) == count + 1

\* a wrapper without try/catch: the failure leaves the wrapper
NoCatch_WrapperOutcome(behaviour) ==
    IF behaviour \in {"ok", "resolves"} THEN "resolved" ELSE "escaped"

\* async (...args) => { try { await event.execute(client, ...args) } catch { logger.error } }
WrapperOutcome(behaviour) ==
    IF behaviour \in {"ok", "resolves"} THEN "resolved" ELSE "caught"

CurrentFile == eventFiles[fileIdx]

InLoop == loaderPc = "loop" /\ fileIdx <= Len(eventFiles)

(***************************************************************************)
(* loadEventHandlers                                                       *)
(***************************************************************************)
\* a missing directory that is scanned all the same
Proceed_LoadNoDirectory ==
    /\ loaderPc = "start"
    /\ skipLog' = [skipLog EXCEPT !["noDir"] = @ + 1]
    /\ loaderPc' = "loop"
    /\ \E files \in FileLists : eventFiles' = files
    /\ UNCHANGED <<fileIdx, loadedCount, loadedResult, registered>>
    /\ UNCHANGED <<isDev, ledgerVars, clientVars, otherVars>>

\* if (!fs.existsSync(eventsPath)) { logger.warn(...); return 0 }
LoadNoDirectory ==
    /\ loaderPc = "start"
    /\ skipLog' = [skipLog EXCEPT !["noDir"] = @ + 1]
    /\ loaderPc' = "done"
    /\ loadedResult' = <<0>>
    /\ UNCHANGED <<eventFiles, fileIdx, loadedCount, registered>>
    /\ UNCHANGED <<isDev, ledgerVars, clientVars, otherVars>>

\* the path exists but fs.readdirSync throws in getAllEventFiles (the path is
\* a regular file, a directory cannot be read): the call of line 57 is outside
\* any try, the promise of loadEventHandlers rejects
LoadScanFails ==
    /\ loaderPc = "start"
    /\ loaderPc' = "thrown"
    /\ UNCHANGED <<eventFiles, fileIdx, loadedCount, loadedResult, registered, skipLog>>
    /\ UNCHANGED <<isDev, ledgerVars, clientVars, otherVars>>

\* the directory exists and is read:
\* const eventFiles = getAllEventFiles(eventsPath); let loadedCount = 0
LoadStart ==
    /\ loaderPc = "start"
    /\ loaderPc' = "loop"
    /\ \E files \in FileLists : eventFiles' = files
    /\ fileIdx' = 1
    /\ loadedCount' = 0
    /\ UNCHANGED <<loadedResult, registered, skipLog>>
    /\ UNCHANGED <<isDev, ledgerVars, clientVars, otherVars>>

\* an import failure that leaves the loop and the loader
Abort_LoadImportFails ==
    /\ InLoop
    /\ CurrentFile.importThrows
    /\ skipLog' = [skipLog EXCEPT !["failed"] = @ + 1]
    /\ loaderPc' = "thrown"
    /\ UNCHANGED <<fileIdx, eventFiles, loadedCount, loadedResult, registered>>
    /\ UNCHANGED <<isDev, ledgerVars, clientVars, otherVars>>

\* await import(...) throws: caught by the loop's catch, logged
LoadImportFails ==
    /\ InLoop
    /\ CurrentFile.importThrows
    /\ skipLog' = [skipLog EXCEPT !["failed"] = @ + 1]
    /\ fileIdx' = fileIdx + 1
    /\ UNCHANGED <<loaderPc, eventFiles, loadedCount, loadedResult, registered>>
    /\ UNCHANGED <<isDev, ledgerVars, clientVars, otherVars>>

\* if (!event) { logger.warn(...); continue }
LoadRejectShape ==
    /\ InLoop
    /\ ~CurrentFile.importThrows
    /\ SelectEvent(CurrentFile) = <<>>
    /\ skipLog' = [skipLog EXCEPT !["shape"] = @ + 1]
    /\ fileIdx' = fileIdx + 1
    /\ UNCHANGED <<loaderPc, eventFiles, loadedCount, loadedResult, registered>>
    /\ UNCHANGED <<isDev, ledgerVars, clientVars, otherVars>>

\* if (isDev && event.prodOnly) { logger.warn(...); continue }
LoadSkipProdOnly ==
    /\ InLoop
    /\ ~CurrentFile.importThrows
    /\ SelectEvent(CurrentFile) # <<>>
    /\ ProdOnlyGate(isDev, SelectEvent(CurrentFile)[1])
    /\ skipLog' = [skipLog EXCEPT !["prodOnly"] = @ + 1]
    /\ fileIdx' = fileIdx + 1
    /\ UNCHANGED <<loaderPc, eventFiles, loadedCount, loadedResult, registered>>
    /\ UNCHANGED <<isDev, ledgerVars, clientVars, otherVars>>

\* client.once / client.on with the wrapper, loadedCount++
LoadRegister ==
    /\ InLoop
    /\ ~CurrentFile.importThrows
    /\ SelectEvent(CurrentFile) # <<>>
    /\ LET event == SelectEvent(CurrentFile)[1]
       IN /\ ~ProdOnlyGate(isDev, event)
          /\ listeners' = Append(listeners, [file |-> fileIdx,
                                             eventName |-> event.eventName[2],
                                             once |-> BindOnce(event)])
    /\ loadedCount' = CountRegistered(loadedCount)
    /\ registered' = registered \cup {fileIdx}
    /\ fileIdx' = fileIdx + 1
    /\ UNCHANGED <<loaderPc, eventFiles, loadedResult, skipLog>>
    /\ UNCHANGED <<emitted, delivered, invoked, running, errorLog, unhandled>>
    /\ UNCHANGED <<isDev, ledgerVars, otherVars>>

\* return loadedCount
LoadReturn ==
    /\ loaderPc = "loop"
    /\ fileIdx > Len(eventFiles)
    /\ loaderPc' = "done"
    /\ loadedResult' = <<loadedCount>>
    /\ UNCHANGED <<eventFiles, fileIdx, loadedCount, registered, skipLog>>
    /\ UNCHANGED <<isDev, ledgerVars, clientVars, otherVars>>

(***************************************************************************)
(* The upstream client delivering notifications to the bound wrappers      *)
(***************************************************************************)
\* the event file i was registered with
EventOf(i) == SelectEvent(eventFiles[i])[1]

\* an emitter that stops after the first listener of the event
FirstOnly_Called(eventName) ==
    LET bound == {j \in 1..Len(listeners) : listeners[j].eventName = eventName}
    IN {listeners[k].file : k \in {j \in bound : \A h \in bound : j <= h}}

\* files whose listener is called by emit(eventName)
Called(eventName) == {listeners[k].file : k \in {j \in 1..Len(listeners) :
                                                   listeners[j].eventName = eventName}}

\* client.emit(eventName, ...): every bound listener of the event is called in
\* binding order; a listener bound with once is removed before it is called.
\* The wrapper calls execute: a synchronous throw is caught at once and a
\* handler that waits for nothing is done with the notification; a handler
\* that awaits leaves its wrapper suspended until its promise settles.
Emit(eventName) ==
    /\ emitted < MaxEmits
    /\ emitted' = emitted + 1
    /\ listeners' = SelectSeq(listeners, LAMBDA l : ~(l.eventName = eventName /\ l.once))
    /\ delivered' = [i \in FileIdx |->
                        IF i \in registered /\ EventOf(i).eventName[2] = eventName
                        THEN delivered[i] + 1 ELSE delivered[i]]
    /\ invoked' = [i \in FileIdx |->
                        IF i \in Called(eventName) THEN invoked[i] + 1 ELSE invoked[i]]
    /\ running' = [i \in FileIdx |->
                        IF i \in Called(eventName) /\ EventOf(i).behaviour \in {"resolves", "rejects"}
                        THEN running[i] + 1 ELSE running[i]]
    /\ errorLog' = [i \in FileIdx |->
                        IF /\ i \in Called(eventName)
                           /\ EventOf(i).behaviour = "throws"
                           /\ WrapperOutcome("throws") = "caught"
                        THEN errorLog[i] + 1 ELSE errorLog[i]]
    /\ unhandled' = (unhandled \/ \E i \in Called(eventName) :
                                     /\ EventOf(i).behaviour = "throws"
                                     /\ WrapperOutcome("throws") = "escaped")
    /\ UNCHANGED <<isDev, ledgerVars, loaderVars, otherVars>>

\* what an invocation of file i's execute returned settles and its wrapper
\* resumes after the await: the try ends, or the catch logs the rejection
Settle(i) ==
    /\ running[i] > 0
    /\ running' = [running EXCEPT ![i] = @ - 1]
    /\ errorLog' = [errorLog EXCEPT ![i] =
                        IF WrapperOutcome(EventOf(i).behaviour) = "caught" THEN @ + 1 ELSE @]
    /\ unhandled' = (unhandled \/ WrapperOutcome(EventOf(i).behaviour) = "escaped")
    /\ UNCHANGED <<listeners, emitted, delivered, invoked>>
    /\ UNCHANGED <<isDev, ledgerVars, loaderVars, otherVars>>

(***************************************************************************)
(* getAllEventFiles: the recursive scan of the events directory            *)
(***************************************************************************)
\* A name is the sequence of its characters, a path the sequence of its names.
EventsPath == << <<"e", "v", "e", "n", "t", "s">> >>

FileNames == { <<"a", ".", "t", "s">>, <<"a", ".", "j", "s">>,
               <<"a", ".", "d", ".", "t", "s">>, <<"a", ".", "t", "s", "x">>,
               <<"t", "s">> }
DirNames == { <<"s">>, <<"d", ".", "t", "s">> }
LinkNames == { <<"l", ".", "t", "s">>, <<"l", ".", "j", "s">> }

\* what can be created in a directory: a regular file, a directory, or an
\* entry that is neither (a symbolic link, a socket)
EntryChoices ==
    (FileNames \X {"file"}) \cup (DirNames \X {"dir"}) \cup (LinkNames \X {"other"})

\* String.prototype.endsWith
EndsWith(name, suffix) ==
    /\ Len(name) >= Len(suffix)
    /\ SubSeq(name, Len(name) - Len(suffix) + 1, Len(name)) = suffix

\* a test that accepts both families
BothFamilies_IsValid(dev, name) ==
    EndsWith(name, <<".", "t", "s">>) \/ EndsWith(name, <<".", "j", "s">>)

\* const isValid = isDev ? item.name.endsWith(".ts") : item.name.endsWith(".js")
IsValid(dev, name) ==
    IF dev THEN EndsWith(name, <<".", "t", "s">>) ELSE EndsWith(name, <<".", "j", "s">>)

\* item.name
ItemName(item) == item.path[Len(item.path)]

\* fs.readdirSync(dir, { withFileTypes: true })
ReadDir(entries, dir) ==
    SelectSeq(entries, LAMBDA e : /\ Len(e.path) = Len(dir) + 1
                                  /\ SubSeq(e.path, 1, Len(dir)) = dir)

RECURSIVE getAllEventFiles(_, _, _)
RECURSIVE ScanItems(_, _, _, _)

\* for (const item of items) { ... }: the paths pushed for the items left
ScanItems(dev, entries, dir, items) ==
    IF items = <<>>
    THEN <<>>
    ELSE LET item == Head(items)
             fullPath == Append(dir, ItemName(item))
             pushed == IF item.kind = "dir"
                       THEN getAllEventFiles(dev, entries, fullPath)
                       ELSE IF item.kind = "file" /\ IsValid(dev, ItemName(item))
                            THEN <<fullPath>>
                            ELSE <<>>
         IN pushed \o ScanItems(dev, entries, dir, Tail(items))

\* function getAllEventFiles(dir)
getAllEventFiles(dev, entries, dir) ==
    ScanItems(dev, entries, dir, ReadDir(entries, dir))

\* the directories that exist under (and including) the events directory
Directories == {EventsPath} \cup {dirents[k].path : k \in {j \in 1..Len(dirents) : dirents[j].kind = "dir"}}

\* an entry is created in an existing directory before the loader scans it
CreateEntry(dir, name, kind) ==
    /\ discovered = <<>>
    /\ Len(dirents) < MaxEntries
    /\ dir \in Directories
    /\ \A k \in 1..Len(dirents) : dirents[k].path # Append(dir, name)
    /\ dirents' = Append(dirents, [path |-> Append(dir, name), kind |-> kind])
    /\ UNCHANGED discovered
    /\ UNCHANGED <<isDev, ledgerVars, loaderVars, clientVars, welcomeVars>>

\* const eventFiles = getAllEventFiles(eventsPath)
Discover ==
    /\ discovered = <<>>
    /\ discovered' = <<getAllEventFiles(isDev, dirents, EventsPath)>>
    /\ UNCHANGED dirents
    /\ UNCHANGED <<isDev, ledgerVars, loaderVars, clientVars, welcomeVars>>

(***************************************************************************)
(* registerWelcomeHandler and its guildMemberAdd listener (welcome.ts)     *)
(***************************************************************************)
\* config.discord.events.onGuildMemberAdd.welcome
WelcomeConfigs == [enabled : BOOLEAN, channelId : {"", "c1"}, sendEmbed : BOOLEAN]

\* member.guild.memberCount
MemberCount(members) == Cardinality(members)

\* export function registerWelcomeHandler(client)
RegisterWelcomeHandler ==
    /\ welcomePc = "start"
    /\ \E cfg \in WelcomeConfigs :
          /\ welcomeConfig' = cfg
          /\ welcomePc' = IF ~cfg.enabled THEN "disabled"
                          ELSE IF cfg.channelId = "" THEN "noChannel"
                          ELSE "bound"
    /\ UNCHANGED <<guildMembers, guildEvents, wPc, wMember, wCount, wChannel, sent,
                   welcomeErrors, welcomeEscaped>>
    /\ UNCHANGED <<isDev, ledgerVars, loaderVars, clientVars, fsVars>>

\* a user joins the guild, before or after the handler was registered: the
\* client emits guildMemberAdd, which starts an invocation of the listener if
\* one is bound, beside the invocations still waiting
MemberJoin(u) ==
    /\ guildEvents < MaxGuildEvents
    /\ u \notin guildMembers
    /\ guildMembers' = guildMembers \cup {u}
    /\ guildEvents' = guildEvents + 1
    /\ IF welcomePc = "bound"
       THEN /\ wPc' = [wPc EXCEPT ![guildEvents + 1] = "fetch"]
            /\ wMember' = [wMember EXCEPT ![guildEvents + 1] = u]
       ELSE UNCHANGED <<wPc, wMember>>
    /\ UNCHANGED <<welcomeConfig, welcomePc, wCount, wChannel, sent, welcomeErrors,
                   welcomeEscaped>>
    /\ UNCHANGED <<isDev, ledgerVars, loaderVars, clientVars, fsVars>>

\* a user leaves the guild, at any time
MemberLeave(u) ==
    /\ guildEvents < MaxGuildEvents
    /\ u \in guildMembers \ {"bot"}
    /\ guildMembers' = guildMembers \ {u}
    /\ guildEvents' = guildEvents + 1
    /\ UNCHANGED <<welcomeConfig, welcomePc, wPc, wMember, wCount, wChannel, sent,
                   welcomeErrors, welcomeEscaped>>
    /\ UNCHANGED <<isDev, ledgerVars, loaderVars, clientVars, fsVars>>

\* a listener without try/catch: the error leaves it
Escape_WelcomeCatch(i) ==
    /\ wPc' = [wPc EXCEPT ![i] = "done"]
    /\ welcomeEscaped' = TRUE
    /\ UNCHANGED <<wCount, sent, welcomeErrors>>

\* catch (error) { logger.error(...) }
WelcomeCatch(i) ==
    /\ wPc' = [wPc EXCEPT ![i] = "done"]
    /\ welcomeErrors' = welcomeErrors + 1
    /\ UNCHANGED <<wCount, sent, welcomeEscaped>>

\* the message invocation i sends
Message(kind, i) ==
    [kind |-> kind, userId |-> wMember[i], number |-> wCount[i], event |-> i]

\* const channel = await client.channels.fetch(channelId); the text-based test;
\* const memberCount = member.guild.memberCount
WelcomeFetchChannel(i) ==
    /\ wPc[i] = "fetch"
    /\ \E outcome \in {"throws", "null", "notText", "text"} :
          /\ wChannel' = [wChannel EXCEPT ![i] = outcome]
          /\ CASE outcome = "throws" -> WelcomeCatch(i)
               [] outcome \in {"null", "notText"} ->
                    /\ wPc' = [wPc EXCEPT ![i] = "done"]
                    /\ UNCHANGED <<wCount, sent, welcomeErrors, welcomeEscaped>>
               [] outcome = "text" ->
                    /\ wPc' = [wPc EXCEPT ![i] = "card"]
                    /\ wCount' = [wCount EXCEPT ![i] = MemberCount(guildMembers)]
                    /\ UNCHANGED <<sent, welcomeErrors, welcomeEscaped>>
    /\ UNCHANGED <<welcomeConfig, welcomePc, guildMembers, guildEvents, wMember>>
    /\ UNCHANGED <<isDev, ledgerVars, loaderVars, clientVars, fsVars>>

\* await generateCustomWelcomeCard(...) / generateWelcomeCard(member, memberCount, ...)
WelcomeGenerateCard(i) ==
    /\ wPc[i] = "card"
    /\ \E ok \in BOOLEAN :
          IF ok
          THEN /\ wPc' = [wPc EXCEPT ![i] = "send"]
               /\ UNCHANGED <<wCount, sent, welcomeErrors, welcomeEscaped>>
          ELSE WelcomeCatch(i)
    /\ UNCHANGED <<welcomeConfig, welcomePc, guildMembers, guildEvents, wMember, wChannel>>
    /\ UNCHANGED <<isDev, ledgerVars, loaderVars, clientVars, fsVars>>

\* a failed image send that is logged and followed by the embed all the same
Continue_WelcomeSendImage(i) ==
    /\ wPc[i] = "send"
    /\ \E ok \in BOOLEAN :
          /\ sent' = IF ok THEN Append(sent, Message("image", i)) ELSE sent
          /\ welcomeErrors' = IF ok THEN welcomeErrors ELSE welcomeErrors + 1
          /\ wPc' = [wPc EXCEPT ![i] = IF welcomeConfig.sendEmbed THEN "embed" ELSE "done"]
          /\ UNCHANGED <<wCount, welcomeEscaped>>
    /\ UNCHANGED <<welcomeConfig, welcomePc, guildMembers, guildEvents, wMember, wChannel>>
    /\ UNCHANGED <<isDev, ledgerVars, loaderVars, clientVars, fsVars>>

\* await textChannel.send({ content, files: [welcomeCard] })
WelcomeSendImage(i) ==
    /\ wPc[i] = "send"
    /\ \E ok \in BOOLEAN :
          IF ok
          THEN /\ sent' = Append(sent, Message("image", i))
               /\ wPc' = [wPc EXCEPT ![i] = IF welcomeConfig.sendEmbed THEN "embed" ELSE "done"]
               /\ UNCHANGED <<wCount, welcomeErrors, welcomeEscaped>>
          ELSE WelcomeCatch(i)
    /\ UNCHANGED <<welcomeConfig, welcomePc, guildMembers, guildEvents, wMember, wChannel>>
    /\ UNCHANGED <<isDev, ledgerVars, loaderVars, clientVars, fsVars>>

\* if (welcomeConfig.sendEmbed) await textChannel.send({ embeds: [embed] })
WelcomeSendEmbed(i) ==
    /\ wPc[i] = "embed"
    /\ \E ok \in BOOLEAN :
          IF ok
          THEN /\ sent' = Append(sent, Message("embed", i))
               /\ wPc' = [wPc EXCEPT ![i] = "done"]
               /\ UNCHANGED <<wCount, welcomeErrors, welcomeEscaped>>
          ELSE WelcomeCatch(i)
    /\ UNCHANGED <<welcomeConfig, welcomePc, guildMembers, guildEvents, wMember, wChannel>>
    /\ UNCHANGED <<isDev, ledgerVars, loaderVars, clientVars, fsVars>>

(***************************************************************************)
(* Specifications                                                          *)
(***************************************************************************)
\* The table outlives the process (CREATE TABLE IF NOT EXISTS): the ledger is
\* constructed over an empty table, or over one that holds the record of an
\* earlier join, the sequence standing at the last number handed out
LedgerAtStart == {<<>>,
                  <<[joinNumber |-> 1, userId |-> "u1", username |-> "Alice", joinedAt |-> 0]>>}

\* every component but the store, before its first operation
InitProcess ==
    /\ pc = [c \in Calls |-> "idle"]
    /\ args = [c \in Calls |-> [userId |-> "u1", username |-> "Alice"]]
    /\ result = [c \in Calls |-> <<>>]
    /\ reserved = [c \in Calls |-> <<>>]
    /\ startedAt = [c \in Calls |-> 0]
    /\ answer = [c \in Calls |-> <<>>]
    /\ errorOf = [c \in Calls |-> ""]
    /\ overlapped = [c \in Calls |-> {}]
    /\ lastGet = [l \in Lookups |-> <<>>]
    /\ getCall = [l \in Lookups |-> NoLookup]
    /\ isDev \in BOOLEAN
    /\ loaderPc = "start"
    /\ eventFiles = <<>>
    /\ fileIdx = 1
    /\ loadedCount = 0
    /\ loadedResult = <<>>
    /\ registered = {}
    /\ skipLog = [k \in {"shape", "prodOnly", "failed", "noDir"} |-> 0]
    /\ listeners = <<>>
    /\ emitted = 0
    /\ delivered = [i \in FileIdx |-> 0]
    /\ invoked = [i \in FileIdx |-> 0]
    /\ running = [i \in FileIdx |-> 0]
    /\ errorLog = [i \in FileIdx |-> 0]
    /\ unhandled = FALSE
    /\ dirents = <<>>
    /\ discovered = <<>>
    /\ welcomeConfig = [enabled |-> FALSE, channelId |-> "", sendEmbed |-> FALSE]
    /\ welcomePc = "start"
    /\ guildMembers = {"bot"}
    /\ guildEvents = 0
    /\ wPc = [i \in GuildEvents |-> "idle"]
    /\ wMember = [i \in GuildEvents |-> "u1"]
    /\ wCount = [i \in GuildEvents |-> 0]
    /\ wChannel = [i \in GuildEvents |-> "none"]
    /\ sent = <<>>
    /\ welcomeErrors = 0
    /\ welcomeEscaped = FALSE

\* the loader and the welcome handler do not use the store: an empty table
Init ==
    /\ guild_member_joins = <<>>
    /\ join_number_seq = 0
    /\ InitProcess

\* the components that do not read the mode are run in production mode
InitProduction == Init /\ ~isDev

\* the ledger, constructed over the table as it stands
InitLedger ==
    /\ guild_member_joins \in LedgerAtStart
    /\ join_number_seq = Len(guild_member_joins)
    /\ InitProcess
    /\ ~isDev

\* the display name an invocation passes: names alternate from one invocation
\* to the next, so a participant rejoins under the same or under another name
NameOf(c) == IF c % 2 = 1 THEN "Alice" ELSE "Bob"

\* the ledger under concurrent callers
Next ==
    \/ \E c \in Calls, u \in UserIds : RecordJoinCall(c, u, NameOf(c))
    \/ \E c \in Calls : RecordJoinStatementStart(c)
    \/ \E c \in Calls : RecordJoinNextVal(c)
    \/ \E c \in Calls : RecordJoinArbitrate(c)
    \/ \E c \in Calls : RecordJoinInsert(c)
    \/ \E c \in Calls : RecordJoinInsertError(c)
    \/ \E c \in Calls : RecordJoinFindRead(c)
    \/ \E c \in Calls : RecordJoinFind(c)
    \/ \E c \in Calls : RecordJoinFindError(c)

\* the ledger does not read the mode: production mode
Spec == InitLedger /\ [][Next]_vars

\* the ledger under a single writer: one recordJoin at a time
NoneInFlight == \A c \in Calls : ~InFlight(c)

\* a caller that waits for the previous recordJoin to settle
RecordJoinCallAlone(c, userId, username) ==
    /\ NoneInFlight
    /\ RecordJoinCall(c, userId, username)

NextSingleWriter ==
    \/ \E c \in Calls, u \in UserIds, n \in Usernames : RecordJoinCallAlone(c, u, n)
    \/ \E c \in Calls : RecordJoinStatementStart(c)
    \/ \E c \in Calls : RecordJoinNextVal(c)
    \/ \E c \in Calls : RecordJoinArbitrate(c)
    \/ \E c \in Calls : RecordJoinInsert(c)
    \/ \E c \in Calls : RecordJoinInsertError(c)
    \/ \E c \in Calls : RecordJoinFindRead(c)
    \/ \E c \in Calls : RecordJoinFind(c)
    \/ \E c \in Calls : RecordJoinFindError(c)

SpecSingleWriter == InitLedger /\ [][NextSingleWriter]_vars

\* getJoinNumber lookups running alongside recordJoin callers that come one
\* at a time
NextLookup ==
    \/ \E c \in Calls, u \in UserIds : RecordJoinCallAlone(c, u, NameOf(c))
    \/ \E c \in Calls : RecordJoinStatementStart(c)
    \/ \E c \in Calls : RecordJoinNextVal(c)
    \/ \E c \in Calls : RecordJoinArbitrate(c)
    \/ \E c \in Calls : RecordJoinInsert(c)
    \/ \E c \in Calls : RecordJoinInsertError(c)
    \/ \E c \in Calls : RecordJoinFindRead(c)
    \/ \E c \in Calls : RecordJoinFind(c)
    \/ \E c \in Calls : RecordJoinFindError(c)
    \/ \E l \in Lookups, u \in UserIds : GetJoinNumberCall(l, u)
    \/ \E l \in Lookups : GetJoinNumberFindRead(l)
    \/ \E l \in Lookups : GetJoinNumberReturn(l)
    \/ \E l \in Lookups : GetJoinNumberFindError(l)

SpecLookup == InitLedger /\ [][NextLookup]_vars

\* the ledger on a store that may lose rows
NextAnomaly ==
    \/ \E c \in Calls, u \in UserIds : RecordJoinCall(c, u, NameOf(c))
    \/ \E c \in Calls : RecordJoinStatementStart(c)
    \/ \E c \in Calls : RecordJoinNextVal(c)
    \/ \E c \in Calls : RecordJoinArbitrate(c)
    \/ \E c \in Calls : RecordJoinInsert(c)
    \/ \E c \in Calls : RecordJoinInsertError(c)
    \/ \E c \in Calls : RecordJoinFindRead(c)
    \/ \E c \in Calls : RecordJoinFind(c)
    \/ \E c \in Calls : RecordJoinFindError(c)
    \/ \E u \in UserIds : RowLost(u)

SpecAnomaly == InitLedger /\ [][NextAnomaly]_vars

\* the events directory is filled, then scanned
NextDiscovery ==
    \/ \E dir \in Directories, choice \in EntryChoices : CreateEntry(dir, choice[1], choice[2])
    \/ Discover

SpecDiscovery == Init /\ [][NextDiscovery]_vars

\* the welcome handler while users join and leave the guild
NextWelcome ==
    \/ RegisterWelcomeHandler
    \/ \E u \in UserIds : MemberJoin(u)
    \/ \E u \in UserIds : MemberLeave(u)
    \/ \E i \in GuildEvents : WelcomeFetchChannel(i)
    \/ \E i \in GuildEvents : WelcomeGenerateCard(i)
    \/ \E i \in GuildEvents : WelcomeSendImage(i)
    \/ \E i \in GuildEvents : WelcomeSendEmbed(i)

SpecWelcome == InitProduction /\ [][NextWelcome]_vars

\* the event loader and the notifications of the upstream client
NextLoader ==
    \/ LoadNoDirectory
    \/ LoadScanFails
    \/ LoadStart
    \/ LoadImportFails
    \/ LoadRejectShape
    \/ LoadSkipProdOnly
    \/ LoadRegister
    \/ LoadReturn
    \/ \E e \in EventNames : Emit(e)
    \/ \E i \in FileIdx : Settle(i)

SpecLoader == Init /\ [][NextLoader]_vars

(***************************************************************************)
(* Properties of the join ledger                                           *)
(***************************************************************************)
Returned(c) == pc[c] = "returned"

JoinNumbers(table) == {r.joinNumber : r \in Range(table)}

\* C1 (stability of the ordinal): a stored row keeps its userId and joinNumber
\* in every step; a recordJoin for a participant who already has a row adds no
\* row; and every invocation that has returned holds exactly the joinNumber
\* stored for its participant.
C1_StableOrdinal ==
    [][ /\ \A r \in Range(guild_member_joins) :
              \E s \in Range(guild_member_joins') :
                  s.userId = r.userId /\ s.joinNumber = r.joinNumber
        /\ \A c \in Calls :
              (InFlight(c) /\ UserIdConflict(guild_member_joins, args[c].userId))
                  => Len(Find(guild_member_joins', args[c].userId))
                       = Len(Find(guild_member_joins, args[c].userId))
        /\ \A c \in Calls :
              pc'[c] = "returned" =>
                  /\ Len(Find(guild_member_joins', args'[c].userId)) >= 1
                  /\ \A r \in Range(guild_member_joins') :
                        r.userId = args'[c].userId => result'[c] = <<r.joinNumber>>
      ]_vars

\* a participant rejoined under another name after the first invocation had
\* returned, and the second invocation returned as well
C1_Witness ==
    \E c, d \in Calls :
        /\ c < d /\ Returned(c) /\ Returned(d)
        /\ d \notin overlapped[c]
        /\ args[c].userId = args[d].userId
        /\ args[c].username # args[d].username
        /\ result[c] = result[d]

\* C2 (race-safe idempotency): two invocations for the same participant that
\* were in flight together and have both returned hold the same joinNumber,
\* and exactly one row exists for that participant.
C2_RaceSafeIdempotency ==
    \A c, d \in Calls :
        (/\ c # d /\ Returned(c) /\ Returned(d)
         /\ d \in overlapped[c]
         /\ args[c].userId = args[d].userId)
        => /\ result[c] = result[d]
           /\ Len(Find(guild_member_joins, args[c].userId)) = 1

\* two invocations for one participant overlapped; one inserted, the other
\* fell back to the lookup, and both have returned
C2_Witness ==
    \E c, d \in Calls :
        /\ c # d /\ Returned(c) /\ Returned(d)
        /\ d \in overlapped[c]
        /\ args[c].userId = args[d].userId
        /\ Len(guild_member_joins) >= 1

\* C3 (distinct participants, concurrently): when a group of N invocations for
\* N pairwise distinct participants were in flight together (and with no other
\* invocation) and all have returned, no invocation having failed on a storage
\* error, their joinNumbers are pairwise distinct,
\* and the stored joinNumbers have no duplicates and no gaps.
C3_ConcurrentDistinctDense ==
    \A S \in SUBSET Calls :
        (/\ Cardinality(S) >= 2
         /\ \A c \in Calls : pc[c] # "thrown"
         /\ \A c \in S : Returned(c) /\ overlapped[c] = S \ {c}
         /\ \A c, d \in S : c # d => args[c].userId # args[d].userId)
        => /\ \A c, d \in S : c # d => result[c] # result[d]
           /\ Cardinality(JoinNumbers(guild_member_joins)) = Len(guild_member_joins)
           /\ JoinNumbers(guild_member_joins) = 1..Len(guild_member_joins)

\* C4 (dense numbering under a single writer): as long as no invocation failed
\* on a storage error, the stored joinNumbers are exactly 1..k when k
\* participants are recorded.
C4_DenseSingleWriter ==
    (\A c \in Calls : pc[c] # "thrown")
        => JoinNumbers(guild_member_joins) = 1..Len(guild_member_joins)

\* C5 (uniqueness): no two rows share a joinNumber, no two rows share a
\* userId, and a joinNumber held by one participant is never held by another
\* participant in the next state.
C5_UniqueLedger ==
    [][ /\ \A i, j \in 1..Len(guild_member_joins') :
              i # j => /\ guild_member_joins'[i].joinNumber # guild_member_joins'[j].joinNumber
                       /\ guild_member_joins'[i].userId # guild_member_joins'[j].userId
        /\ \A r \in Range(guild_member_joins), s \in Range(guild_member_joins') :
              r.joinNumber = s.joinNumber => r.userId = s.userId
      ]_vars

\* two participants are recorded and a further insert was suppressed
C5_Witness ==
    /\ Len(guild_member_joins) = 2
    /\ \E c \in Calls : pc[c] = "find"

(***************************************************************************)
(* Properties of the event loader and of dispatch                          *)
(***************************************************************************)
Min(a, b) == IF a < b THEN a ELSE b

Fails(i) == EventOf(i).behaviour \in {"throws", "rejects"}

\* what a bound handler must have received: a once binding the first matching
\* notification, a recurring binding every matching notification
Expected(i) == IF EventOf(i).once THEN Min(1, delivered[i]) ELSE delivered[i]

\* C6 (failure isolation): no error of a handler reaches the upstream client;
\* every failure of a bound handler is caught and logged by its wrapper (or is
\* still awaited); and once a handler has failed, every other bound handler,
\* once or recurring, has still been invoked for each notification due to it.
C6_FailureIsolation ==
    /\ ~unhandled
    /\ \A h \in registered :
          /\ Fails(h) => errorLog[h] + running[h] = invoked[h]
          /\ ~Fails(h) => errorLog[h] = 0
    /\ \A h, h2 \in registered :
          (h # h2 /\ errorLog[h] > 0) => invoked[h2] = Expected(h2)

\* a handler failed on the first notification and another handler of the same
\* event received that notification and a later one
C6_Witness ==
    \E h, h2 \in registered :
        /\ h # h2
        /\ errorLog[h] > 0
        /\ EventOf(h).eventName = EventOf(h2).eventName
        /\ invoked[h2] >= 2

\* C7 (once versus recurring): a handler registered with once=true is invoked
\* at most one time, also when that invocation failed; a handler registered
\* with once=false is invoked once per matching notification delivered since
\* it was bound.
C7_OnceVersusRecurring ==
    \A i \in registered :
        /\ EventOf(i).once => invoked[i] <= 1
        /\ ~EventOf(i).once => invoked[i] = delivered[i]

\* two matching notifications reached a failed once handler and a recurring one
C7_Witness ==
    \E i, j \in registered :
        /\ EventOf(i).once /\ delivered[i] >= 2 /\ errorLog[i] = 1
        /\ ~EventOf(j).once /\ invoked[j] >= 2

\* an accepted module that is production-only
IsProdOnlyFile(i) ==
    /\ i \in 1..Len(eventFiles)
    /\ ~eventFiles[i].importThrows
    /\ SelectEvent(eventFiles[i]) # <<>>
    /\ SelectEvent(eventFiles[i])[1].prodOnly

\* C8 (environment gating): in development mode a production-only handler is
\* never bound to the client, never invoked and not counted as registered.
C8_ProdOnlyGated ==
    isDev =>
        /\ \A i \in FileIdx :
              IsProdOnlyFile(i) =>
                  /\ i \notin registered
                  /\ \A k \in 1..Len(listeners) : listeners[k].file # i
                  /\ invoked[i] = 0
        /\ loadedCount = Cardinality({i \in 1..Len(eventFiles) :
                                         i < fileIdx /\ ~eventFiles[i].importThrows
                                         /\ SelectEvent(eventFiles[i]) # <<>>
                                         /\ ~IsProdOnlyFile(i)})

\* development mode: a production-only handler was skipped, and a handler bound
\* after it has received a notification of the same event
C8_Witness ==
    /\ isDev
    /\ loaderPc = "done"
    /\ \E i \in FileIdx, j \in registered :
          /\ IsProdOnlyFile(i)
          /\ i < j
          /\ EventOf(j).eventName = SelectEvent(eventFiles[i])[1].eventName
          /\ delivered[j] >= 1

\* no file index is bound twice
BoundOnce ==
    \A k, m \in 1..Len(listeners) : k # m => listeners[k].file # listeners[m].file

\* C9 as stated: the returned count is the number of discovered files minus
\* those rejected for shape minus those skipped by the environment gate.
C9_CountAsStated ==
    loaderPc = "done" =>
        loadedResult = <<Len(eventFiles) - skipLog["shape"] - skipLog["prodOnly"]>>

\* C9 (amended): the returned count is the number of discovered files minus
\* those whose import failed, minus those rejected for shape, minus those
\* skipped by the environment gate; it is the number of listeners bound to
\* the client, each counted file being bound exactly once.
C9_CountAmended ==
    loaderPc = "done" =>
        /\ loadedResult = <<Len(eventFiles) - skipLog["failed"]
                              - skipLog["shape"] - skipLog["prodOnly"]>>
        /\ loadedResult = <<Cardinality(registered)>>
        /\ BoundOnce
        /\ emitted = 0 => Len(listeners) = loadedResult[1]

\* a finished load that met a failed import, a skipped module and a registered one
C9_Witness ==
    /\ loaderPc = "done"
    /\ skipLog["failed"] >= 1
    /\ skipLog["shape"] + skipLog["prodOnly"] >= 1
    /\ loadedResult # <<>> /\ loadedResult[1] >= 1

\* the values of a module the validator looks at: its default export and itself
Candidates(eventModule) ==
    (IF eventModule.hasDefault THEN {eventModule.default} ELSE {}) \cup {eventModule.named}

\* C10 (validator): a file is bound to the client only if its module exposes,
\* directly or in its default export, a non-empty event name together with a
\* callable execute; a module with an empty event name, or without execute,
\* is never bound.
C10_NonEmptyNameAndExecute ==
    \A i \in FileIdx :
        (i \in registered \/ \E k \in 1..Len(listeners) : listeners[k].file = i)
        => \E m \in Candidates(eventFiles[i]) :
              /\ m.typeof = "object"
              /\ m.eventName # <<>> /\ m.eventName[1] = "string" /\ m.eventName[2] # ""
              /\ m.execute = <<"function">>

(***************************************************************************)
(* Error handling and frame properties of the join ledger                  *)
(***************************************************************************)
\* C11 (LedgerInconsistency): the fallback lookup of an invocation whose
\* insert was suppressed reads the participant's rows as the store holds them;
\* when it read no row, the invocation ends by throwing: it returns no
\* joinNumber, writes no row, draws no sequence value and does not start over;
\* an invocation that has thrown stays thrown.
C11_LedgerInconsistency ==
    [][ \A c \in Calls :
          /\ (pc[c] = "find" /\ pc'[c] = "found")
             => answer'[c] = Find(guild_member_joins, args[c].userId)
          /\ (/\ pc[c] = "found"
              /\ Len(answer[c]) = 0
              /\ pc'[c] # pc[c])
             => /\ pc'[c] = "thrown"
                /\ errorOf'[c] \in {NoResultError, StorageError}
                /\ result'[c] = <<>>
                /\ guild_member_joins' = guild_member_joins
                /\ join_number_seq' = join_number_seq
          /\ (pc[c] = "thrown" /\ errorOf[c] = NoResultError)
             => /\ pc'[c] = "thrown"
                /\ result'[c] = <<>>
                /\ \A r \in Range(guild_member_joins') : r.joinNumber # reserved[c][1]
      ]_vars

\* an invocation whose insert was suppressed found no row and threw
C11_Witness ==
    \E c \in Calls :
        /\ pc[c] = "thrown"
        /\ errorOf[c] = NoResultError
        /\ reserved[c] # <<>>
        /\ result[c] = <<>>

\* C12 (StorageUnavailable): an invocation that met a storage error during the
\* insert or during the fallback lookup has thrown that error to its caller:
\* it holds no joinNumber and is not running again.
C12_StorageErrorPropagates ==
    \A c \in Calls :
        /\ errorOf[c] # "" => pc[c] = "thrown" /\ result[c] = <<>>
        /\ pc[c] = "thrown" => errorOf[c] # ""

\* one invocation failed in the insert, another in the fallback lookup
C12_Witness ==
    \E c, d \in Calls :
        /\ pc[c] = "thrown" /\ errorOf[c] = StorageError /\ reserved[c] = <<>>
        /\ pc[d] = "thrown" /\ errorOf[d] = StorageError
        /\ UserIdConflict(guild_member_joins, args[d].userId)
        /\ reserved[d] # <<>>
        /\ \A r \in Range(guild_member_joins) : r.joinNumber # reserved[d][1]

\* C13 (getJoinNumber is a pure read): every step of a lookup (the call, the
\* store's read, the return, a rejection) leaves the rows, the sequence and
\* every recordJoin invocation unchanged; the store's read takes the row the
\* table holds for the participant at that moment, or nothing when there is
\* none; and the lookup returns the joinNumber of the row read, which the table
\* still holds for that participant, or null when no row was read.
C13_LookupIsPureRead ==
    [][ \A l \in Lookups :
          /\ (getCall'[l] # getCall[l] \/ lastGet'[l] # lastGet[l]) =>
                /\ guild_member_joins' = guild_member_joins
                /\ join_number_seq' = join_number_seq
                /\ pc' = pc /\ result' = result /\ reserved' = reserved
                /\ answer' = answer /\ startedAt' = startedAt
          /\ (getCall'[l].pc = "find" /\ getCall[l].pc # "find") =>
                /\ getCall[l].pc = "called"
                /\ getCall'[l].userId = getCall[l].userId
                /\ \A r \in Range(guild_member_joins) :
                      r.userId = getCall[l].userId => getCall'[l].member = <<r>>
                /\ ~UserIdConflict(guild_member_joins, getCall[l].userId)
                      => getCall'[l].member = <<>>
          /\ (getCall[l].pc # "returned" /\ getCall'[l].pc = "returned") =>
                /\ getCall[l].pc = "find"
                /\ IF getCall[l].member = <<>>
                   THEN lastGet'[l] = <<>>
                   ELSE /\ lastGet'[l] = <<getCall[l].member[1].joinNumber>>
                        /\ \E r \in Range(guild_member_joins') :
                              /\ r.userId = getCall[l].userId
                              /\ <<r.joinNumber>> = lastGet'[l]
          /\ lastGet'[l] # lastGet[l] => getCall[l].pc = "find" /\ getCall'[l].pc = "returned"
      ]_vars

\* two lookups of one participant overlap with a recordJoin that stores the
\* participant: the lookup called first was read second, after the row was
\* stored, and has returned its number; the lookup called second was read
\* first, read no row and is still pending; the recordJoin is still in flight
C13_Witness ==
    \E l, k \in Lookups, c \in Calls :
        /\ l < k
        /\ getCall[l].pc = "returned" /\ lastGet[l] = <<join_number_seq>>
        /\ getCall[k].pc = "find" /\ getCall[k].member = <<>>
        /\ getCall[k].userId = getCall[l].userId
        /\ pc[c] = "inserted" /\ args[c].userId = getCall[l].userId
        /\ answer[c] = <<join_number_seq>>

\* the row was created by an invocation of this behaviour (not found at start)
Created(row) == \E c \in Calls : reserved[c] = <<row.joinNumber>>

\* the invocation whose drawn sequence value a row carries
Creator(row) == CHOOSE c \in Calls : reserved[c] = <<row.joinNumber>>

\* C17 as stated (insertion order, overlapping invocations included): a row
\* inserted before another carries the smaller joinNumber.
C17_IncreasingInInsertionOrder ==
    \A i, j \in 1..Len(guild_member_joins) :
        i < j => guild_member_joins[i].joinNumber < guild_member_joins[j].joinNumber

\* C17 (amended): a row inserted before another carries the smaller joinNumber
\* whenever the two invocations that created them did not overlap in time (a
\* row found at start was created before every invocation began).
C17_IncreasingWhenNotOverlapped ==
    \A i, j \in 1..Len(guild_member_joins) :
        (/\ i < j
         /\ Created(guild_member_joins[j])
         /\ Created(guild_member_joins[i]) =>
               Creator(guild_member_joins[i]) \notin overlapped[Creator(guild_member_joins[j])])
            => guild_member_joins[i].joinNumber < guild_member_joins[j].joinNumber

\* two rows were created by invocations that ran one after the other
C17_Witness ==
    /\ Len(guild_member_joins) = 2
    /\ Created(guild_member_joins[1])
    /\ Creator(guild_member_joins[1]) \notin overlapped[Creator(guild_member_joins[2])]
    /\ Returned(Creator(guild_member_joins[1]))
    /\ Returned(Creator(guild_member_joins[2]))

\* C18 (a rejoin leaves the ledger unchanged): a stored row is never rewritten
\* or removed, and a step of an invocation whose participant already has a row
\* leaves the table as it is, whatever username the invocation passed.
C18_RejoinLeavesLedgerUnchanged ==
    [][ /\ \A i \in 1..Len(guild_member_joins) :
              /\ Len(guild_member_joins') >= i
              /\ guild_member_joins'[i] = guild_member_joins[i]
        /\ \A c \in Calls :
              (/\ InFlight(c)
               /\ UserIdConflict(guild_member_joins, args[c].userId)
               /\ pc'[c] # pc[c])
                 => guild_member_joins' = guild_member_joins
      ]_vars

\* a rejoin under another username has returned and the only row still shows
\* the first username and the first timestamp
C18_Witness ==
    \E c \in Calls :
        /\ Returned(c)
        /\ reserved[c] # <<>>
        /\ Len(guild_member_joins) = 1
        /\ guild_member_joins[1].userId = args[c].userId
        /\ guild_member_joins[1].username # args[c].username
        /\ guild_member_joins[1].joinNumber # reserved[c][1]
        /\ guild_member_joins[1].joinedAt = 1

(***************************************************************************)
(* Error handling and dispatch of the event loader                         *)
(***************************************************************************)
\* the file selects an event module that the mode does not gate
Bindable(i) ==
    /\ ~eventFiles[i].importThrows
    /\ SelectEvent(eventFiles[i]) # <<>>
    /\ ~(isDev /\ SelectEvent(eventFiles[i])[1].prodOnly)

\* C15 (best-effort loading): the loader throws only when the scan of the
\* directory fails, before any file is imported, never because of a file; every
\* bindable file the loop has passed is bound, whatever failed to import or was
\* rejected for shape before it, and once the loader has returned every
\* bindable file of the discovery order is bound.
C15_BestEffortLoading ==
    /\ loaderPc = "thrown" =>
          /\ eventFiles = <<>>
          /\ \A k \in DOMAIN skipLog : skipLog[k] = 0
    /\ \A i \in 1..Len(eventFiles) :
          (i < fileIdx /\ Bindable(i)) => i \in registered
    /\ (loaderPc = "done" /\ skipLog["noDir"] = 0) => fileIdx = Len(eventFiles) + 1

\* the loader returned after a failed import and a shape rejection, and the
\* bindable file that came after both is bound
C15_Witness ==
    /\ loaderPc = "done"
    /\ Len(eventFiles) = 3
    /\ eventFiles[1].importThrows
    /\ ~eventFiles[2].importThrows /\ SelectEvent(eventFiles[2]) = <<>>
    /\ Bindable(3)
    /\ registered = {3}
    /\ Len(listeners) = 1

\* C16 (missing catalog root): when the events directory is reported missing,
\* the loader has returned 0 without throwing, has scanned nothing and has
\* bound no handler.
C16_MissingRootBindsNothing ==
    skipLog["noDir"] > 0 =>
        /\ loaderPc = "done"
        /\ loadedResult = <<0>>
        /\ eventFiles = <<>>
        /\ registered = {}
        /\ listeners = <<>>
        /\ \A i \in FileIdx : invoked[i] = 0

\* the directory was missing, the loader returned, and notifications emitted
\* afterwards reached no handler
C16_Witness ==
    /\ skipLog["noDir"] = 1
    /\ loaderPc = "done"
    /\ loadedResult = <<0>>
    /\ emitted = MaxEmits

\* C19 (all handlers of one eventKind are invoked): a notification invokes
\* every handler registered for its event exactly once -- a once handler only
\* if it was not invoked before -- and no other handler, whether or not another
\* handler of the event is still running or has failed.
C19_AllHandlersInvoked ==
    [][ emitted' = emitted + 1 =>
          \E e \in EventNames :
             \A i \in FileIdx :
                invoked'[i] = invoked[i] +
                    (IF /\ i \in registered
                        /\ EventOf(i).eventName[2] = e
                        /\ ~(EventOf(i).once /\ invoked[i] > 0)
                     THEN 1 ELSE 0)
      ]_vars

\* the auto-role handler and a handler that rejects, both recurring and bound
\* to guildMemberAdd, were both invoked by two notifications: the second
\* notification came while the first invocation of the auto-role handler was
\* still awaiting RoleManager.assign, and after the other handler had failed
\* once (its second invocation is still awaited)
C19_Witness ==
    \E i, j \in registered :
        /\ i # j
        /\ eventFiles[i] = AutoRole
        /\ EventOf(i).eventName = EventOf(j).eventName
        /\ ~EventOf(i).once /\ ~EventOf(j).once
        /\ invoked[i] = 2 /\ invoked[j] = 2
        /\ running[i] = 2 /\ errorLog[i] = 0
        /\ running[j] = 1 /\ errorLog[j] = 1

(***************************************************************************)
(* Properties of the discovery                                             *)
(***************************************************************************)
\* the extension of a name: from its last dot on, empty without a dot
Extension(name) ==
    LET dots == {i \in 1..Len(name) : name[i] = "."}
    IN IF dots = {} THEN <<>>
       ELSE SubSeq(name, CHOOSE i \in dots : \A j \in dots : j <= i, Len(name))

\* the extension of the family the mode activates
ActiveExtension == IF isDev THEN <<".", "t", "s">> ELSE <<".", "j", "s">>

\* the regular files of the active family anywhere under the events directory
ActiveFamilyFiles ==
    {dirents[k].path : k \in {j \in 1..Len(dirents) :
         /\ dirents[j].kind = "file"
         /\ Extension(dirents[j].path[Len(dirents[j].path)]) = ActiveExtension}}

\* C20 (discovery selects one family, everywhere): the scan returns exactly the
\* regular files, at any depth, whose extension is the active one (.ts in
\* development, .js otherwise), each once, and never a .ts and a .js file
\* together.
C20_DiscoverySelectsActiveFamily ==
    discovered # <<>> =>
        LET files == discovered[1]
        IN /\ Range(files) = ActiveFamilyFiles
           /\ Cardinality(Range(files)) = Len(files)
           /\ ~(/\ \E f \in Range(files) : Extension(f[Len(f)]) = <<".", "t", "s">>
                /\ \E f \in Range(files) : Extension(f[Len(f)]) = <<".", "j", "s">>)

\* the only path found is a file of the active family two directories deep,
\* while a file of the other family was left out
C20_Witness ==
    /\ discovered # <<>>
    /\ Len(discovered[1]) = 1
    /\ Len(discovered[1][1]) = Len(EventsPath) + 3
    /\ \E k \in 1..Len(dirents) :
          /\ dirents[k].kind = "file"
          /\ Extension(dirents[k].path[Len(dirents[k].path)]) \in
                {<<".", "t", "s">>, <<".", "j", "s">>} \ {ActiveExtension}

(***************************************************************************)
(* Properties of the welcome handler                                       *)
(***************************************************************************)
\* C14 (the welcome number is the ledger's joinNumber): every welcome image
\* shows the joinNumber the ledger stores for the member it welcomes, and two
\* welcome images for the same member show the same number.
C14_WelcomeShowsLedgerNumber ==
    /\ \A k \in 1..Len(sent) :
          sent[k].kind = "image" =>
              \E row \in Range(guild_member_joins) :
                  /\ row.userId = sent[k].userId
                  /\ row.joinNumber = sent[k].number
    /\ \A k, h \in 1..Len(sent) :
          (/\ sent[k].kind = "image" /\ sent[h].kind = "image"
           /\ sent[k].userId = sent[h].userId)
             => sent[k].number = sent[h].number

(***************************************************************************)
(* The number recordJoin returns                                           *)
(***************************************************************************)
\* C21 (the returned number is the participant's stored number): at the step
\* in which an invocation returns a number, the table holds a row of the
\* invocation's participant with that joinNumber, and no row of another
\* participant carries it.
C21_ReturnedNumberIsStored ==
    [][ \A c \in Calls :
          (pc[c] # "returned" /\ pc'[c] = "returned")
            => /\ \E row \in Range(guild_member_joins') :
                     /\ row.userId = args[c].userId
                     /\ <<row.joinNumber>> = result'[c]
               /\ \A row \in Range(guild_member_joins') :
                     <<row.joinNumber>> = result'[c] => row.userId = args[c].userId
      ]_vars

\* two overlapping invocations for different participants have returned: one
\* through the fallback lookup with the number stored for its participant, the
\* other with the number of its own new row
C21_Witness ==
    \E c, d \in Calls :
        /\ c # d /\ Returned(c) /\ Returned(d)
        /\ d \in overlapped[c]
        /\ reserved[c] # result[c]
        /\ reserved[d] = result[d]
        /\ args[c].userId # args[d].userId
        /\ Len(guild_member_joins) = 2

(***************************************************************************)
(* Descriptor selection                                                    *)
(***************************************************************************)
\* a valid handler shape: a non-empty event name and a callable execute
ValidShape(m) ==
    /\ m.typeof = "object"
    /\ m.eventName # <<>> /\ m.eventName[1] = "string" /\ m.eventName[2] # ""
    /\ m.execute = <<"function">>

\* the descriptor to register: the default slot if it is a valid shape, else
\* the named bindings if they are, else none
Descriptor(eventModule) ==
    IF eventModule.hasDefault /\ ValidShape(eventModule.default)
    THEN <<eventModule.default>>
    ELSE IF ValidShape(eventModule.named)
         THEN <<eventModule.named>>
         ELSE <<>>

\* C22 (descriptor selection): when the loop has imported a file and moves on,
\* it has bound exactly one listener, for the file's descriptor -- the default
\* slot if valid, else the named bindings if valid -- or, when the file has no
\* descriptor or the mode gates it, no listener at all.
C22_DescriptorSelection ==
    [][ (/\ InLoop
         /\ fileIdx' = fileIdx + 1
         /\ ~CurrentFile.importThrows)
          => LET d == Descriptor(CurrentFile)
             IN IF d = <<>>
                THEN listeners' = listeners
                ELSE IF isDev /\ d[1].prodOnly
                     THEN listeners' = listeners
                     ELSE listeners' = Append(listeners,
                                              [file |-> fileIdx,
                                               eventName |-> d[1].eventName[2],
                                               once |-> d[1].once])
      ]_vars

(***************************************************************************)
(* Binding, error containment and step order of the welcome handler        *)
(***************************************************************************)
\* C23 (binding and containment): the listener is bound only for an enabled
\* configuration with a channel id, and invocations run only once it is bound;
\* no error leaves an invocation; an invocation whose fetch threw or gave no
\* text channel has ended, and a message is sent only by an invocation whose
\* fetch gave a text channel.
C23_WelcomeBindingAndContainment ==
    [][ /\ welcomePc' = "bound" <=>
              (/\ welcomePc' # "start"
               /\ welcomeConfig'.enabled
               /\ welcomeConfig'.channelId # "")
        /\ (sent' # <<>> \/ welcomeErrors' > 0
              \/ \E i \in GuildEvents : wPc'[i] # "idle" \/ wChannel'[i] # "none")
              => welcomePc' = "bound"
        /\ ~welcomeEscaped'
        /\ \A i \in GuildEvents :
              /\ wChannel'[i] \in {"throws", "null", "notText"} => wPc'[i] = "done"
              /\ (wChannel'[i] = "throws" /\ wChannel[i] = "none")
                    => welcomeErrors' = welcomeErrors + 1
              /\ (wPc[i] \in {"card", "send", "embed"} /\ wPc'[i] = "done" /\ sent' = sent)
                    => welcomeErrors' = welcomeErrors + 1
        /\ sent' # sent =>
              /\ Len(sent') = Len(sent) + 1
              /\ wChannel[sent'[Len(sent')].event] = "text"
        /\ \A k \in 1..Len(sent') : wChannel'[sent'[k].event] = "text"
      ]_vars

\* two invocations failed inside the listener (a fetch that threw, a later
\* step that failed), a third found no text channel, and nothing was sent
C23_Witness ==
    /\ welcomePc = "bound"
    /\ welcomeErrors = 2
    /\ \E i, j, k \in GuildEvents :
          /\ wChannel[i] = "throws"
          /\ wChannel[j] = "text" /\ wPc[j] = "done"
          /\ wChannel[k] = "notText"
    /\ sent = <<>>

\* the positions among the first n messages of the messages of one kind sent
\* for guild event i
Positions(kind, i, n) ==
    {k \in 1..n : sent[k].kind = kind /\ sent[k].event = i}

\* C24 (step order): an invocation reaches the image send only from a
\* generated card and the embed send only from a sent image with sendEmbed
\* configured; a sent image is followed by the embed step exactly when
\* sendEmbed is configured; and among the messages sent, every embed comes
\* after the image of the same notification, each notification having at most
\* one image and one embed.
C24_WelcomeStepOrder ==
    [][ /\ \A i \in GuildEvents :
              /\ (wPc'[i] = "send" /\ wPc[i] # "send") => wPc[i] = "card" /\ sent' = sent
              /\ (wPc'[i] = "embed" /\ wPc[i] # "embed") =>
                    /\ wPc[i] = "send"
                    /\ welcomeConfig.sendEmbed
                    /\ sent' = Append(sent, [kind |-> "image", userId |-> wMember[i],
                                             number |-> wCount[i], event |-> i])
              /\ (wPc[i] = "send" /\ wPc'[i] # "send" /\ sent' # sent) =>
                    wPc'[i] = (IF welcomeConfig.sendEmbed THEN "embed" ELSE "done")
              /\ Cardinality(Positions("image", i, Len(sent))') <= 1
              /\ Cardinality(Positions("embed", i, Len(sent))') <= 1
              /\ \A k \in Positions("embed", i, Len(sent))' :
                    /\ welcomeConfig.sendEmbed
                    /\ \E h \in Positions("image", i, Len(sent))' : h < k
      ]_vars

\* with sendEmbed configured, two invocations ran interleaved: both images
\* were sent before the first embed, and the embed of the other failed
C24_Witness ==
    /\ welcomeConfig.sendEmbed
    /\ Len(sent) = 3
    /\ sent[1].kind = "image" /\ sent[2].kind = "image" /\ sent[3].kind = "embed"
    /\ sent[1].event # sent[2].event
    /\ \A i \in GuildEvents : wPc[i] \in {"idle", "done"}
    /\ welcomeErrors = 1

====
